---- MODULE Spec2Model ----
(***************************************************************************)
(* A model of custom-logger.js: the SystemLogger (append to the log file,  *)
(* then emit 'logged'), the SystemMonitor (startMonitoring, stopMonitoring,*)
(* the timer callback collectSystemMetrics, checkAlerts, generateReport)   *)
(* and the script's top-level wiring with its SIGINT handler.              *)
(*                                                                         *)
(* Text is modelled as a sequence of string tokens: a file is the sequence *)
(* of the tokens written to it, "\n" and " " being tokens of their own.    *)
(* Percentages are integers in hundredths of a percent (85.01% is 8501).   *)
(* The clock counts timer intervals.                                       *)
(*                                                                         *)
(* Seven specifications share the variables; FaultSpec alone has I/O       *)
(* failures:                                                               *)
(*   Spec       a caller invokes the monitor's methods in any order while  *)
(*              the timer fires;                                           *)
(*   LoggerSpec a caller invokes the logger's methods in any order;        *)
(*   MainSpec   the script as written, from line 242 to process.exit;      *)
(*   AlertSpec  checkAlerts applied to every pair of percentages;          *)
(*   RunSpec    the script again, left running for MaxRun intervals;       *)
(*   BytesSpec  formatBytes applied to byte counts of every magnitude;     *)
(*   FaultSpec  as Spec, calls of fs.appendFileSync and of the listener    *)
(*              failing at times.                                          *)
(***************************************************************************)
EXTENDS Integers, Sequences, FiniteSets, TLC

VARIABLES
    logExists,        \* whether ./logs/system-monitor.log exists
    logContent,       \* its content, a sequence of tokens
    initialLog,       \* its content when the logger was constructed
    console,          \* the lines written to standard output, in order
    listeners,        \* number of 'logged' listeners registered
    calls,            \* the calls made to SystemLogger.log, in order
    monitoring,       \* SystemMonitor.monitoring
    monitorInterval,  \* SystemMonitor.monitorInterval: 0 (null) or a timer id
    timers,           \* the armed interval timers: records [id, due]
    nextTimer,        \* the id the next setInterval returns
    now,              \* the clock
    pc,               \* position of the script, or "harness"
    sigintHandler,    \* whether the SIGINT handler is registered
    report,           \* the SIGINT handler's local: const report
    reportFile,       \* content of ./monitor-report.txt
    exitCode,         \* <<>> while the process runs, <<c>> once it exited
    lastCall          \* the last method called: [op, args, outcome, value]

vars == <<logExists, logContent, initialLog, console, listeners, calls,
          monitoring, monitorInterval, timers, nextTimer, now, pc,
          sigintHandler, report, reportFile, exitCode, lastCall>>

----------------------------------------------------------------------------
(* Bounds of the model *)

\* the clock runs from 0 to MaxClock
MaxClock == 1

\* at most MaxTimers calls of setInterval
MaxTimers == 2

\* at most MaxDirect calls of info, warn and error in LoggerSpec
MaxDirect == 2

\* the clock of RunSpec runs from 0 to MaxRun
MaxRun == 2

\* the byte counts of BytesSpec are m * 1024^e with e from 0 to MaxExp
MaxExp == 5

\* at most MaxFaults calls to log fail in FaultSpec
MaxFaults == 1

----------------------------------------------------------------------------
(* Text helpers *)

NL == "\n"

SP == " "

RECURSIVE Concat(_)
\* the string made of the tokens of s
Concat(s) == IF s = <<>> THEN "" ELSE Head(s) \o Concat(Tail(s))

RECURSIVE Split(_, _)
\* String.prototype.split(sep): the pieces of s between the separators
Split(s, sep) ==
    IF \A i \in 1..Len(s) : s[i] # sep
    THEN <<s>>
    ELSE LET k == CHOOSE i \in 1..Len(s) :
                      s[i] = sep /\ \A j \in 1..(i - 1) : s[j] # sep
         IN  <<SubSeq(s, 1, k - 1)>> \o Split(SubSeq(s, k + 1, Len(s)), sep)

\* line.trim() is the empty string
IsBlank(line) == \A i \in 1..Len(line) : line[i] \in {SP, ""}

\* line.includes(tag)
Includes(line, tag) == \E i \in 1..Len(line) : line[i] = tag

\* content.split("\n").filter((line) => line.trim())
NonBlankLines(content) == SelectSeq(Split(content, NL), LAMBDA l : ~IsBlank(l))

\* line.split(" ")[0]
FirstToken(line) == Concat(Split(line, SP)[1])

\* s is a prefix of t
IsPrefix(s, t) == Len(s) <= Len(t) /\ SubSeq(t, 1, Len(s)) = s

\* n with at least two digits
TwoDigits(n) == IF n < 10 THEN "0" \o ToString(n) ELSE ToString(n)

\* what `${x}` prints for x = parseFloat(v.toFixed(2)), h the hundredths of x
FormatHundredths(h) ==
    ToString(h \div 100) \o
    (IF h % 100 = 0 THEN ""
     ELSE IF h % 10 = 0 THEN "." \o ToString((h % 100) \div 10)
     ELSE "." \o TwoDigits(h % 100))

\* Math.round-like rounding of a / b to the nearest integer (a >= 0, b > 0)
RoundDiv(a, b) == (2 * a + b) \div (2 * b)

----------------------------------------------------------------------------
(* SystemLogger *)

Levels == {"INFO", "WARN", "ERROR"}

\* milliseconds in one unit of the clock: the interval the script passes
IntervalMs == 3000

\* new Date().toISOString() at clock t, the epoch being clock 0
ToISOString(t) ==
    LET secs == (t * IntervalMs) \div 1000
        ms   == (t * IntervalMs) % 1000
    IN  "1970-01-01T00:" \o TwoDigits((secs \div 60) % 60) \o ":"
            \o TwoDigits(secs % 60) \o "."
            \o (IF ms < 100 THEN "0" ELSE "") \o TwoDigits(ms) \o "Z"

\* the log entry without the newline that ends it
LogEntry_NoNewline(timestamp, type, message) ==
    <<timestamp, SP, "[" \o type \o "]", SP, message>>

\* `${timestamp} [${type}] ${message}\n`
LogEntry(timestamp, type, message) ==
    <<timestamp, SP, "[" \o type \o "]", SP, message, NL>>

\* the console listener: console.log(`[${entry.type}] ${entry.message}`)
ConsoleLine(entry) == "[" \o entry.type \o "] " \o entry.message

\* outcome of one handler's log calls: no failure, or the k-th call fails,
\* in fs.appendFileSync ("append") or in a listener ("listener")
NoFault == [at |-> 0, kind |-> "none"]

\* how many of the calls cs reach fs.appendFileSync and succeed there
NumAppended(cs, f) ==
    IF f.at = 0 \/ f.at > Len(cs) THEN Len(cs)
    ELSE IF f.kind = "append" THEN f.at - 1 ELSE f.at

\* the listeners run to completion for every call made, also for the one
\* whose append failed
NumNotified_AppendFailed(cs, f) ==
    IF f.at = 0 \/ f.at > Len(cs) THEN Len(cs)
    ELSE IF f.kind = "append" THEN f.at ELSE f.at - 1

\* how many of the calls cs have their listeners run to completion
NumNotified(cs, f) ==
    IF f.at = 0 \/ f.at > Len(cs) THEN Len(cs) ELSE f.at - 1

\* how many of the calls cs are made at all
NumCalled(cs, f) ==
    IF f.at = 0 \/ f.at > Len(cs) THEN Len(cs) ELSE f.at

\* whether one of the calls cs throws
Throws(cs, f) == f.at \in 1..Len(cs)

RECURSIVE Entries(_, _)
\* the text appended by the calls cs made at clock t
Entries(cs, t) ==
    IF cs = <<>> THEN <<>>
    ELSE LogEntry(ToISOString(t), Head(cs).type, Head(cs).message)
             \o Entries(Tail(cs), t)

\* log writing the file anew (fs.writeFileSync) instead of appending to it
Log_Overwrite(cs, f) ==
    LET na == NumAppended(cs, f)
        nn == NumNotified(cs, f)
        nc == NumCalled(cs, f)
    IN  /\ logContent' = Entries(SubSeq(cs, 1, na), now)
        /\ logExists' = (logExists \/ na > 0)
        /\ console' = console \o
               (IF listeners > 0
                THEN [i \in 1..nn |-> ConsoleLine(cs[i])]
                ELSE <<>>)
        /\ calls' = calls \o
               [i \in 1..nc |-> [timestamp |-> ToISOString(now),
                                 type |-> cs[i].type,
                                 message |-> cs[i].message]]

\* SystemLogger.log for each call of cs in turn, stopping at a failure:
\* append the entry to the file (creating it), then emit 'logged'
Log(cs, f) ==
    LET na == NumAppended(cs, f)
        nn == NumNotified(cs, f)
        nc == NumCalled(cs, f)
    IN  /\ logContent' = logContent \o Entries(SubSeq(cs, 1, na), now)
        /\ logExists' = (logExists \/ na > 0)
        /\ console' = console \o
               (IF listeners > 0
                THEN [i \in 1..nn |-> ConsoleLine(cs[i])]
                ELSE <<>>)
        /\ calls' = calls \o
               [i \in 1..nc |-> [timestamp |-> ToISOString(now),
                                 type |-> cs[i].type,
                                 message |-> cs[i].message]]

\* info(message), warn(message), error(message)
Call(type, message) == [type |-> type, message |-> message]

----------------------------------------------------------------------------
(* Metric collectors *)

\* os.totalmem(), in bytes
TotalMem == 10000

\* the values os.freemem() may return: 70%, 85% and 85.01% of memory used
FreeMems == {3000, 1500, 1499}

\* process.memoryUsage().rss, in bytes
Rss == 2048

\* one entry of os.cpus()
Core(model, user, sys, idle) ==
    [model |-> model,
     times |-> [user |-> user, nice |-> 0, sys |-> sys, idle |-> idle, irq |-> 0]]

\* the values os.cpus() may return: 60%, 80% and 80.01% of the ticks busy
CpuSamples ==
    { <<Core("cpu0", 2000, 1000, 2000), Core("cpu0", 2500, 500, 2000)>>,
      <<Core("cpu0", 7000, 1000, 2000)>>,
      <<Core("cpu0", 4000, 1, 999), Core("cpu0", 4000, 0, 1000)>> }

\* Object.keys(os.networkInterfaces()).length
InterfaceCount == 2

RECURSIVE UnitIndex(_)
\* Math.floor(Math.log(bytes) / Math.log(1024)), bytes >= 1
UnitIndex(bytes) == IF bytes < 1024 THEN 0 ELSE 1 + UnitIndex(bytes \div 1024)

RECURSIVE Pow1024(_)
\* Math.pow(1024, i)
Pow1024(i) == IF i = 0 THEN 1 ELSE 1024 * Pow1024(i - 1)

\* const sizes = ["Bytes", "KB", "MB", "GB", "TB"]
Sizes == <<"Bytes", "KB", "MB", "GB", "TB">>

\* SystemMonitor.formatBytes
FormatBytes(bytes) ==
    IF bytes = 0 THEN "0 Bytes"
    ELSE LET i == UnitIndex(bytes)
         IN  FormatHundredths(RoundDiv(bytes * 100, Pow1024(i))) \o " " \o
                 (IF i + 1 \in DOMAIN Sizes THEN Sizes[i + 1] ELSE "undefined")

\* SystemMonitor.formatBytes applied to the byte count m * 1024^e, which may
\* exceed the integers of the model checker: floor(log(bytes) / log(1024))
\* is UnitIndex(m) + e and bytes / 1024^i is m / 1024^UnitIndex(m). The
\* result is given as its tokens: the number, the space, sizes[i].
FormatBytesScaled(m, e) ==
    IF m = 0 THEN <<"0 Bytes">>
    ELSE LET i == UnitIndex(m) + e
         IN  << FormatHundredths(RoundDiv(m * 100, Pow1024(UnitIndex(m)))),
                " ",
                IF i + 1 \in DOMAIN Sizes THEN Sizes[i + 1] ELSE "undefined" >>

\* SystemMonitor.getMemoryInfo, free the value os.freemem() returns
GetMemoryInfo(free) ==
    LET used == TotalMem - free
    IN  [total |-> TotalMem,
         free |-> free,
         used |-> used,
         usedPercent |-> RoundDiv(used * 10000, TotalMem),
         totalFormatted |-> FormatBytes(TotalMem),
         freeFormatted |-> FormatBytes(free),
         usedFormatted |-> FormatBytes(used)]

\* for (const type in cpu.times) totalTick += cpu.times[type]
CoreTicks(times) == times.user + times.nice + times.sys + times.idle + times.irq

RECURSIVE TotalTick(_)
\* totalTick of getCPUUsage after its loop over the cores
TotalTick(cpus) ==
    IF cpus = <<>> THEN 0 ELSE CoreTicks(Head(cpus).times) + TotalTick(Tail(cpus))

RECURSIVE TotalIdle(_)
\* totalIdle of getCPUUsage after its loop over the cores
TotalIdle(cpus) ==
    IF cpus = <<>> THEN 0 ELSE Head(cpus).times.idle + TotalIdle(Tail(cpus))

\* SystemMonitor.getCPUUsage and the rounding getCPUInfo applies to it:
\* (1 - totalIdle / totalTick) * 100, in hundredths
CpuUsagePercent(cpus) ==
    RoundDiv((TotalTick(cpus) - TotalIdle(cpus)) * 10000, TotalTick(cpus))

\* SystemMonitor.getCPUInfo, cpus the value os.cpus() returns
GetCPUInfo(cpus) ==
    [cores |-> Len(cpus),
     model |-> IF Len(cpus) > 0 THEN cpus[1].model ELSE "Unknown",
     usagePercent |-> CpuUsagePercent(cpus)]

\* SystemMonitor.getProcessInfo at clock t, the monitor constructed at clock 0
GetProcessInfo(t) ==
    [memoryUsed |-> Rss,
     memoryUsedFormatted |-> FormatBytes(Rss),
     uptime |-> RoundDiv(t * IntervalMs, 10)]

\* SystemMonitor.getSystemInfo
GetSystemInfo == [hostname |-> "host", platform |-> "linux", arch |-> "x64"]

\* SystemMonitor.getNetworkInfo
GetNetworkInfo == [interfaces |-> InterfaceCount]

----------------------------------------------------------------------------
(* Alert evaluation *)

\* checkAlerts with the memory threshold of 85 inclusive (>= for >)
CheckAlerts_Inclusive(memory, cpu) ==
    (IF memory.usedPercent >= 8500
     THEN <<Call("ERROR", "CRITICAL: Memory usage at "
                    \o FormatHundredths(memory.usedPercent) \o "%")>>
     ELSE IF memory.usedPercent > 7000
     THEN <<Call("WARN", "WARNING: Memory usage at "
                    \o FormatHundredths(memory.usedPercent) \o "%")>>
     ELSE <<>>)
    \o
    (IF cpu.usagePercent > 8000
     THEN <<Call("ERROR", "CRITICAL: CPU usage at "
                    \o FormatHundredths(cpu.usagePercent) \o "%")>>
     ELSE IF cpu.usagePercent > 6000
     THEN <<Call("WARN", "WARNING: CPU usage at "
                    \o FormatHundredths(cpu.usagePercent) \o "%")>>
     ELSE <<>>)

\* SystemMonitor.checkAlerts: the calls it makes to the logger, in order
\* (the messages without their leading emoji)
CheckAlerts(memory, cpu) ==
    (IF memory.usedPercent > 8500
     THEN <<Call("ERROR", "CRITICAL: Memory usage at "
                    \o FormatHundredths(memory.usedPercent) \o "%")>>
     ELSE IF memory.usedPercent > 7000
     THEN <<Call("WARN", "WARNING: Memory usage at "
                    \o FormatHundredths(memory.usedPercent) \o "%")>>
     ELSE <<>>)
    \o
    (IF cpu.usagePercent > 8000
     THEN <<Call("ERROR", "CRITICAL: CPU usage at "
                    \o FormatHundredths(cpu.usagePercent) \o "%")>>
     ELSE IF cpu.usagePercent > 6000
     THEN <<Call("WARN", "WARNING: CPU usage at "
                    \o FormatHundredths(cpu.usagePercent) \o "%")>>
     ELSE <<>>)

\* collectSystemMetrics calling checkAlerts before it logs the six metrics
CollectSystemMetrics_AlertsFirst(free, cpus, t) ==
    LET memory == GetMemoryInfo(free)
        cpu == GetCPUInfo(cpus)
        processInfo == GetProcessInfo(t)
        system == GetSystemInfo
        network == GetNetworkInfo
    IN  CheckAlerts(memory, cpu) \o
        << Call("INFO", "Memory: " \o FormatHundredths(memory.usedPercent)
                    \o "% (" \o memory.usedFormatted \o "/"
                    \o memory.totalFormatted \o ")"),
           Call("INFO", "CPU: " \o ToString(cpu.cores) \o " cores, "
                    \o cpu.model),
           Call("INFO", "CPU Usage: " \o FormatHundredths(cpu.usagePercent)
                    \o "%"),
           Call("INFO", "Process: " \o processInfo.memoryUsedFormatted
                    \o ", Uptime: " \o FormatHundredths(processInfo.uptime)
                    \o "s"),
           Call("INFO", "System: " \o system.platform \o " " \o system.arch
                    \o " (" \o system.hostname \o ")"),
           Call("INFO", "Network Interfaces: "
                    \o ToString(network.interfaces)) >>

\* SystemMonitor.collectSystemMetrics at clock t: the calls it makes to the
\* logger, in order
CollectSystemMetrics(free, cpus, t) ==
    LET memory == GetMemoryInfo(free)
        cpu == GetCPUInfo(cpus)
        processInfo == GetProcessInfo(t)
        system == GetSystemInfo
        network == GetNetworkInfo
    IN  << Call("INFO", "Memory: " \o FormatHundredths(memory.usedPercent)
                    \o "% (" \o memory.usedFormatted \o "/"
                    \o memory.totalFormatted \o ")"),
           Call("INFO", "CPU: " \o ToString(cpu.cores) \o " cores, "
                    \o cpu.model),
           Call("INFO", "CPU Usage: " \o FormatHundredths(cpu.usagePercent)
                    \o "%"),
           Call("INFO", "Process: " \o processInfo.memoryUsedFormatted
                    \o ", Uptime: " \o FormatHundredths(processInfo.uptime)
                    \o "s"),
           Call("INFO", "System: " \o system.platform \o " " \o system.arch
                    \o " (" \o system.hostname \o ")"),
           Call("INFO", "Network Interfaces: "
                    \o ToString(network.interfaces)) >>
        \o CheckAlerts(memory, cpu)

----------------------------------------------------------------------------
(* Report *)

NoData == <<"No log data available">>

Bar == "==============================="

\* the report with the two counts exchanged
ReportText_Swapped(stats) ==
    << NL, Bar, NL, "  SYSTEM MONITOR REPORT", NL, Bar, NL,
       "Total Log Entries: ", ToString(stats.totalEntries), NL,
       "Errors: ", ToString(stats.warnings), NL,
       "Warnings: ", ToString(stats.errors), NL,
       "Start Time: ", stats.startTime, NL,
       "End Time: ", stats.endTime, NL, Bar, NL >>

\* the template string generateReport returns
ReportText(stats) ==
    << NL, Bar, NL, "  SYSTEM MONITOR REPORT", NL, Bar, NL,
       "Total Log Entries: ", ToString(stats.totalEntries), NL,
       "Errors: ", ToString(stats.errors), NL,
       "Warnings: ", ToString(stats.warnings), NL,
       "Start Time: ", stats.startTime, NL,
       "End Time: ", stats.endTime, NL, Bar, NL >>

\* generateReport without its test of lines.length === 0: lines[0] is
\* undefined when no line is left
GenerateReport_NoEmptyCheck(exists, content) ==
    IF ~exists
    THEN [outcome |-> "early", value |-> NoData]
    ELSE LET lines == NonBlankLines(content)
         IN  IF Len(lines) - 1 \notin DOMAIN lines
             THEN [outcome |-> "threw", value |-> <<"TypeError">>]
             ELSE [outcome |-> "completed",
                   value |-> ReportText(
                       [totalEntries |-> Len(lines),
                        errors |-> Len(SelectSeq(lines,
                                     LAMBDA l : Includes(l, "[ERROR]"))),
                        warnings |-> Len(SelectSeq(lines,
                                     LAMBDA l : Includes(l, "[WARN]"))),
                        startTime |-> FirstToken(lines[1]),
                        endTime |-> FirstToken(lines[Len(lines) - 1])])]

\* generateReport taking the end time from the last line
GenerateReport_LastLine(exists, content) ==
    IF ~exists
    THEN [outcome |-> "early", value |-> NoData]
    ELSE LET lines == NonBlankLines(content)
         IN  IF Len(lines) = 0
             THEN [outcome |-> "early", value |-> NoData]
             ELSE [outcome |-> "completed",
                   value |-> ReportText(
                       [totalEntries |-> Len(lines),
                        errors |-> Len(SelectSeq(lines,
                                     LAMBDA l : Includes(l, "[ERROR]"))),
                        warnings |-> Len(SelectSeq(lines,
                                     LAMBDA l : Includes(l, "[WARN]"))),
                        startTime |-> FirstToken(lines[1]),
                        endTime |-> FirstToken(lines[Len(lines)])])]

\* SystemMonitor.generateReport on the log file: what it returns, or that it
\* throws (lines[lines.length - 2] is undefined when there is one line)
GenerateReport(exists, content) ==
    IF ~exists
    THEN [outcome |-> "early", value |-> NoData]
    ELSE LET lines == NonBlankLines(content)
         IN  IF Len(lines) = 0
             THEN [outcome |-> "early", value |-> NoData]
             ELSE IF Len(lines) - 1 \notin DOMAIN lines
             THEN [outcome |-> "threw", value |-> <<"TypeError">>]
             ELSE [outcome |-> "completed",
                   value |-> ReportText(
                       [totalEntries |-> Len(lines),
                        errors |-> Len(SelectSeq(lines,
                                     LAMBDA l : Includes(l, "[ERROR]"))),
                        warnings |-> Len(SelectSeq(lines,
                                     LAMBDA l : Includes(l, "[WARN]"))),
                        startTime |-> FirstToken(lines[1]),
                        endTime |-> FirstToken(lines[Len(lines) - 1])])]

----------------------------------------------------------------------------
(* The state after construction *)

\* lines left in the log file by an earlier run of the program
PreviousLog ==
    LogEntry("1969-12-31T23:59:54.000Z", "INFO", "System monitoring started")
    \o LogEntry("1969-12-31T23:59:57.000Z", "WARN",
                "WARNING: Memory usage at 75%")

\* ./logs/system-monitor.log when the logger is constructed: the constructor
\* creates the directory only, so the file is absent, empty, blank or left
\* by an earlier run
InitialLogs ==
    { [exists |-> FALSE, content |-> <<>>],
      [exists |-> TRUE, content |-> <<>>],
      [exists |-> TRUE, content |-> <<SP, NL, NL>>],
      [exists |-> TRUE, content |-> PreviousLog] }

\* new SystemLogger(), new SystemMonitor(logger)
Constructed ==
    /\ \E file \in InitialLogs :
           /\ logExists = file.exists
           /\ logContent = file.content
           /\ initialLog = file.content
    /\ console = <<>>
    /\ calls = <<>>
    /\ monitoring = FALSE
    /\ monitorInterval = 0
    /\ timers = {}
    /\ nextTimer = 1
    /\ now = 0
    /\ report = <<>>
    /\ reportFile = <<>>
    /\ exitCode = <<>>
    /\ lastCall = [op |-> "constructor", args |-> <<>>,
                   outcome |-> "completed", value |-> <<>>]

logVars == <<logExists, logContent, console, calls>>

monitorVars == <<monitoring, monitorInterval, timers, nextTimer>>

processVars == <<sigintHandler, report, reportFile, exitCode>>

----------------------------------------------------------------------------
(* SystemMonitor methods *)

\* the call op(args) returned early, completed or threw; value is what it
\* returned (<<>> for undefined) or threw
ReturnedValue(op, args, outcome, value) ==
    lastCall' = [op |-> op, args |-> args, outcome |-> outcome,
                 value |-> value]

Returned(op, outcome) == ReturnedValue(op, <<>>, outcome, <<>>)

\* startMonitoring without its test of this.monitoring
StartMonitoring_NoGuard(interval, f) ==
    LET cs == <<Call("INFO", "System monitoring started")>>
    IN  /\ monitoring' = TRUE
        /\ Log(cs, f)
        /\ monitorInterval' = nextTimer
        /\ timers' = timers \cup
               {[id |-> nextTimer, interval |-> interval,
                 due |-> now + interval \div IntervalMs]}
        /\ nextTimer' = nextTimer + 1
        /\ Returned("startMonitoring", "completed")

\* SystemMonitor.startMonitoring(interval)
StartMonitoring(interval, f) ==
    IF monitoring
    THEN /\ Returned("startMonitoring", "early")
         /\ UNCHANGED <<logVars, monitorVars>>
    ELSE LET cs == <<Call("INFO", "System monitoring started")>>
         IN  /\ monitoring' = TRUE
             /\ Log(cs, f)
             /\ IF Throws(cs, f)
                THEN /\ Returned("startMonitoring", "threw")
                     /\ UNCHANGED <<monitorInterval, timers, nextTimer>>
                ELSE /\ monitorInterval' = nextTimer
                     /\ timers' = timers \cup
                            {[id |-> nextTimer, interval |-> interval,
                              due |-> now + interval \div IntervalMs]}
                     /\ nextTimer' = nextTimer + 1
                     /\ Returned("startMonitoring", "completed")

\* stopMonitoring without its test of this.monitoring
StopMonitoring_NoGuard(f) ==
    LET cs == <<Call("INFO", "System monitoring stopped")>>
    IN  /\ timers' = {t \in timers : t.id # monitorInterval}
        /\ monitoring' = FALSE
        /\ Log(cs, f)
        /\ Returned("stopMonitoring", "completed")
        /\ UNCHANGED <<monitorInterval, nextTimer>>

\* stopMonitoring without its call of clearInterval
StopMonitoring_NoClear(f) ==
    IF ~monitoring
    THEN /\ Returned("stopMonitoring", "early")
         /\ UNCHANGED <<logVars, monitorVars>>
    ELSE LET cs == <<Call("INFO", "System monitoring stopped")>>
         IN  /\ monitoring' = FALSE
             /\ Log(cs, f)
             /\ Returned("stopMonitoring", "completed")
             /\ UNCHANGED <<monitorInterval, timers, nextTimer>>

\* SystemMonitor.stopMonitoring()
StopMonitoring(f) ==
    IF ~monitoring
    THEN /\ Returned("stopMonitoring", "early")
         /\ UNCHANGED <<logVars, monitorVars>>
    ELSE LET cs == <<Call("INFO", "System monitoring stopped")>>
         IN  /\ timers' = {t \in timers : t.id # monitorInterval}
             /\ monitoring' = FALSE
             /\ Log(cs, f)
             /\ Returned("stopMonitoring",
                         IF Throws(cs, f) THEN "threw" ELSE "completed")
             /\ UNCHANGED <<monitorInterval, nextTimer>>

\* the callback leaving out the alerts that an earlier tick logged already
TimerCallback_Once(t, free, cpus, f) ==
    LET cs == SelectSeq(CollectSystemMetrics(free, cpus, now),
                        LAMBDA c : \/ c.type = "INFO"
                                   \/ \A i \in DOMAIN calls :
                                          calls[i].message # c.message)
    IN  /\ t \in timers
        /\ now >= t.due
        /\ Log(cs, f)
        /\ timers' = (timers \ {t}) \cup
               {[t EXCEPT !.due = now + t.interval \div IntervalMs]}
        /\ Returned("collectSystemMetrics",
                    IF Throws(cs, f) THEN "threw" ELSE "completed")
        /\ UNCHANGED <<monitoring, monitorInterval, nextTimer>>

\* the callback of setInterval: timer t is due and runs collectSystemMetrics
\* with the values free and cpus read from the operating system
TimerCallback(t, free, cpus, f) ==
    LET cs == CollectSystemMetrics(free, cpus, now)
    IN  /\ t \in timers
        /\ now >= t.due
        /\ Log(cs, f)
        /\ timers' = (timers \ {t}) \cup
               {[t EXCEPT !.due = now + t.interval \div IntervalMs]}
        /\ Returned("collectSystemMetrics",
                    IF Throws(cs, f) THEN "threw" ELSE "completed")
        /\ UNCHANGED <<monitoring, monitorInterval, nextTimer>>

----------------------------------------------------------------------------
(* The event loop: the timer, the SIGINT handler and the clock *)

\* a timer callback that yields after its third line, the stop line of the
\* SIGINT handler being written before it resumes
Tick_Interleaved ==
    /\ pc = "loop"
    /\ \E t \in timers, free \in FreeMems, cpus \in CpuSamples :
           LET cs == CollectSystemMetrics(free, cpus, now)
           IN  /\ now >= t.due
               /\ Log(SubSeq(cs, 1, 3)
                          \o <<Call("INFO", "System monitoring stopped")>>
                          \o SubSeq(cs, 4, Len(cs)), NoFault)
               /\ timers' = (timers \ {t}) \cup
                      {[t EXCEPT !.due = now + t.interval \div IntervalMs]}
               /\ Returned("collectSystemMetrics", "completed")
               /\ UNCHANGED <<monitoring, monitorInterval, nextTimer>>
    /\ UNCHANGED <<initialLog, listeners, now, pc, processVars>>

\* a timer fires
Tick ==
    /\ pc = "loop"
    /\ \E t \in timers, free \in FreeMems, cpus \in CpuSamples :
           TimerCallback(t, free, cpus, NoFault)
    /\ UNCHANGED <<initialLog, listeners, now, pc, processVars>>

\* time passes between two events
Elapse ==
    /\ pc = "loop"
    /\ now < MaxClock
    /\ now' = now + 1
    /\ UNCHANGED <<logVars, monitorVars, initialLog, listeners, pc,
                   processVars, lastCall>>

\* the SIGINT handler without its call of monitor.stopMonitoring()
Sigint_NoStop ==
    /\ pc = "loop"
    /\ sigintHandler
    /\ console' = console \o <<"\nShutting down monitor...">>
    /\ pc' = "sigint_report"
    /\ UNCHANGED <<logExists, logContent, calls, monitorVars, initialLog,
                   listeners, now, processVars, lastCall>>

\* SIGINT arrives: console.log("\nShutting down monitor...")
Sigint ==
    /\ pc = "loop"
    /\ sigintHandler
    /\ console' = console \o <<"\nShutting down monitor...">>
    /\ pc' = "sigint_stop"
    /\ UNCHANGED <<logExists, logContent, calls, monitorVars, initialLog,
                   listeners, now, processVars, lastCall>>

\* monitor.stopMonitoring()
SigintStop ==
    /\ pc = "sigint_stop"
    /\ StopMonitoring(NoFault)
    /\ pc' = "sigint_report"
    /\ UNCHANGED <<initialLog, listeners, now, processVars>>

\* const report = monitor.generateReport(); an exception ends the process
SigintReport ==
    /\ pc = "sigint_report"
    /\ LET r == GenerateReport(logExists, logContent)
       IN  /\ ReturnedValue("generateReport", <<>>, r.outcome, r.value)
           /\ IF r.outcome = "threw"
              THEN /\ pc' = "crashed"
                   /\ exitCode' = <<1>>
                   /\ UNCHANGED report
              ELSE /\ pc' = "sigint_write"
                   /\ report' = r.value
                   /\ UNCHANGED exitCode
    /\ UNCHANGED <<logVars, monitorVars, initialLog, listeners, now,
                   sigintHandler, reportFile>>

\* fs.writeFileSync("./monitor-report.txt", report)
SigintWrite ==
    /\ pc = "sigint_write"
    /\ reportFile' = report
    /\ pc' = "sigint_saved"
    /\ UNCHANGED <<logVars, monitorVars, initialLog, listeners, now,
                   sigintHandler, report, exitCode, lastCall>>

\* console.log("Report saved to monitor-report.txt")
SigintSaved ==
    /\ pc = "sigint_saved"
    /\ console' = console \o <<"Report saved to monitor-report.txt">>
    /\ pc' = "sigint_exit"
    /\ UNCHANGED <<logExists, logContent, calls, monitorVars, initialLog,
                   listeners, now, processVars, lastCall>>

\* process.exit(0)
SigintExit ==
    /\ pc = "sigint_exit"
    /\ exitCode' = <<0>>
    /\ pc' = "exited"
    /\ UNCHANGED <<logVars, monitorVars, initialLog, listeners, now,
                   sigintHandler, report, reportFile, lastCall>>

EventLoop ==
    \/ Tick
    \/ Elapse
    \/ Sigint
    \/ SigintStop
    \/ SigintReport
    \/ SigintWrite
    \/ SigintSaved
    \/ SigintExit

----------------------------------------------------------------------------
(* Spec: the monitor's methods called in any order while the timer runs *)

\* the state once the listener is registered
Init ==
    /\ Constructed
    /\ listeners = 1
    /\ sigintHandler = FALSE
    /\ pc = "loop"

CallStartMonitoring ==
    /\ pc = "loop"
    /\ monitoring \/ nextTimer <= MaxTimers
    /\ StartMonitoring(IntervalMs, NoFault)
    /\ UNCHANGED <<initialLog, listeners, now, pc, processVars>>

CallStopMonitoring ==
    /\ pc = "loop"
    /\ StopMonitoring(NoFault)
    /\ UNCHANGED <<initialLog, listeners, now, pc, processVars>>

CallGenerateReport ==
    /\ pc = "loop"
    /\ LET r == GenerateReport(logExists, logContent)
       IN  ReturnedValue("generateReport", <<>>, r.outcome, r.value)
    /\ UNCHANGED <<logVars, monitorVars, initialLog, listeners, now, pc,
                   processVars>>

Next ==
    \/ CallStartMonitoring
    \/ CallStopMonitoring
    \/ CallGenerateReport
    \/ Tick
    \/ Elapse

Spec == Init /\ [][Next]_vars

----------------------------------------------------------------------------
(* LoggerSpec: the logger's methods called in any order *)

\* the startup messages with the first two log statements exchanged
StartupMessages_Exchanged ==
    << "Node.js Version: v18.0.0",
       "System Monitor Backend Initialized",
       "Process ID: 4242" >>

\* the three messages the script logs at startup
StartupMessages ==
    << "System Monitor Backend Initialized",
       "Node.js Version: v18.0.0",
       "Process ID: 4242" >>

\* logger.info(message), logger.warn(message), logger.error(message)
CallLog ==
    /\ pc = "loop"
    /\ Len(calls) < MaxDirect
    /\ \E type \in Levels, k \in DOMAIN StartupMessages :
           Log(<<Call(type, StartupMessages[k])>>, NoFault)
    /\ Returned("log", "completed")
    /\ UNCHANGED <<monitorVars, initialLog, listeners, now, pc, processVars>>

LoggerNext ==
    \/ CallLog
    \/ Elapse

LoggerSpec == Init /\ [][LoggerNext]_vars

----------------------------------------------------------------------------
(* AlertSpec: checkAlerts applied once to a pair of percentages *)

\* the percentages tried, in hundredths: the thresholds and their neighbours
Percents ==
    {0, 5999, 6000, 6001, 6999, 7000, 7001, 7999, 8000, 8001, 8499, 8500,
     8501, 10000}

\* monitor.checkAlerts({usedPercent: m}, {usagePercent: c})
CallCheckAlerts ==
    /\ pc = "loop"
    /\ lastCall.op = "constructor"
    /\ \E m \in Percents, c \in Percents :
           /\ Log(CheckAlerts([usedPercent |-> m], [usagePercent |-> c]),
                  NoFault)
           /\ ReturnedValue("checkAlerts", <<m, c>>, "completed", <<>>)
    /\ UNCHANGED <<monitorVars, initialLog, listeners, now, pc, processVars>>

AlertNext ==
    \/ CallCheckAlerts
    \/ Elapse

AlertSpec == Init /\ [][AlertNext]_vars

----------------------------------------------------------------------------
(* MainSpec: the script, lines 241 to 264, then the event loop *)

MainInit ==
    /\ Constructed
    /\ listeners = 0
    /\ sigintHandler = FALSE
    /\ pc = "on_logged"

\* the script without its registration of the console listener
MainOnLogged_NotRegistered ==
    /\ pc = "on_logged"
    /\ pc' = "start"
    /\ UNCHANGED <<logVars, monitorVars, initialLog, listeners, now,
                   processVars, lastCall>>

\* logger.on("logged", ...)
MainOnLogged ==
    /\ pc = "on_logged"
    /\ listeners' = listeners + 1
    /\ pc' = "start"
    /\ UNCHANGED <<logVars, monitorVars, initialLog, now, processVars,
                   lastCall>>

\* monitor.startMonitoring(3000)
MainStart ==
    /\ pc = "start"
    /\ StartMonitoring(IntervalMs, NoFault)
    /\ pc' = "on_sigint"
    /\ UNCHANGED <<initialLog, listeners, now, processVars>>

\* process.on("SIGINT", ...)
MainOnSigint ==
    /\ pc = "on_sigint"
    /\ sigintHandler' = TRUE
    /\ pc' = "info1"
    /\ UNCHANGED <<logVars, monitorVars, initialLog, listeners, now, report,
                   reportFile, exitCode, lastCall>>

InfoPc == <<"info1", "info2", "info3", "loop">>

\* the k-th of the three logger.info calls that end the script
MainInfo ==
    /\ \E k \in 1..3 :
           /\ pc = InfoPc[k]
           /\ Log(<<Call("INFO", StartupMessages[k])>>, NoFault)
           /\ pc' = InfoPc[k + 1]
    /\ Returned("log", "completed")
    /\ UNCHANGED <<monitorVars, initialLog, listeners, now, processVars>>

MainNext ==
    \/ MainOnLogged
    \/ MainStart
    \/ MainOnSigint
    \/ MainInfo
    \/ EventLoop

MainSpec == MainInit /\ [][MainNext]_vars

----------------------------------------------------------------------------
(* RunSpec: the script again, left running for several timer intervals *)

\* time passes between two events, up to MaxRun intervals
ElapseRun ==
    /\ pc = "loop"
    /\ now < MaxRun
    /\ now' = now + 1
    /\ UNCHANGED <<logVars, monitorVars, initialLog, listeners, pc,
                   processVars, lastCall>>

RunNext ==
    \/ MainOnLogged
    \/ MainStart
    \/ MainOnSigint
    \/ MainInfo
    \/ Tick
    \/ ElapseRun
    \/ Sigint
    \/ SigintStop
    \/ SigintReport
    \/ SigintWrite
    \/ SigintSaved
    \/ SigintExit

RunSpec == MainInit /\ [][RunNext]_vars

----------------------------------------------------------------------------
(* BytesSpec: formatBytes applied to byte counts of every magnitude *)

\* the factors m of the byte counts m * 1024^e tried, all below 1024^2:
\* for these the quotient of the two floating-point logarithms lies on the
\* same side of every integer as the exact quotient
Mantissas == {0, 1, 2, 512, 1023, 1024, 1025, 1536, 2047, 2048, 1048575}

\* monitor.formatBytes(m * 1024^e)
CallFormatBytes ==
    /\ pc = "loop"
    /\ \E m \in Mantissas, e \in 0..MaxExp :
           ReturnedValue("formatBytes", <<m, e>>, "completed",
                         FormatBytesScaled(m, e))
    /\ UNCHANGED <<logVars, monitorVars, initialLog, listeners, now, pc,
                   processVars>>

BytesNext ==
    \/ CallFormatBytes

BytesSpec == Init /\ [][BytesNext]_vars

----------------------------------------------------------------------------
(* FaultSpec: the monitor's methods called in any order while the timer    *)
(* runs, a call of fs.appendFileSync or of the listener failing at times.  *)
(* The caller of startMonitoring and stopMonitoring catches what they      *)
(* throw; what the timer callback throws is uncaught and ends the process. *)

\* the calls to log that failed so far: the listener ran to its end for
\* every other call
Failed == Len(calls) - Len(console)

\* what may happen to a handler that makes up to n calls to log: no call
\* fails, or the k-th fails in fs.appendFileSync or in the listener
Faults(n) ==
    {NoFault} \cup
    {[at |-> k, kind |-> kind] : k \in 1..(IF Failed < MaxFaults THEN n ELSE 0),
                                kind \in {"append", "listener"}}

\* the most calls to log one timer callback makes: six metrics, two alerts
MaxTickCalls == 8

\* what os.freemem() returns in FaultSpec: 85% of the memory is used
FaultFreeMem == 1500

\* what os.cpus() returns in FaultSpec: 80% of the ticks are busy; with
\* FaultFreeMem a timer callback makes MaxTickCalls calls to log
FaultCpus == <<Core("cpu0", 7000, 1000, 2000)>>

FaultStartMonitoring ==
    /\ pc = "loop"
    /\ \/ monitoring
       \/ Len(SelectSeq(calls, LAMBDA c :
                  c.message = "System monitoring started")) < MaxTimers
    /\ \E f \in Faults(1) :
           /\ f.kind = "listener" => listeners > 0
           /\ StartMonitoring(IntervalMs, f)
    /\ UNCHANGED <<initialLog, listeners, now, pc, processVars>>

FaultStopMonitoring ==
    /\ pc = "loop"
    /\ \E f \in Faults(1) :
           /\ f.kind = "listener" => listeners > 0
           /\ StopMonitoring(f)
    /\ UNCHANGED <<initialLog, listeners, now, pc, processVars>>

\* a timer fires; an exception of its callback is an uncaught exception
FaultTick ==
    /\ pc = "loop"
    /\ \E t \in timers, f \in Faults(MaxTickCalls) :
           /\ f.kind = "listener" => listeners > 0
           /\ TimerCallback(t, FaultFreeMem, FaultCpus, f)
    /\ IF lastCall'.outcome = "threw"
       THEN pc' = "crashed" /\ exitCode' = <<1>>
       ELSE UNCHANGED <<pc, exitCode>>
    /\ UNCHANGED <<initialLog, listeners, now, sigintHandler, report,
                   reportFile>>

FaultNext ==
    \/ FaultStartMonitoring
    \/ FaultStopMonitoring
    \/ FaultTick
    \/ Elapse

FaultSpec == Init /\ [][FaultNext]_vars

----------------------------------------------------------------------------
(* What the claims are stated over *)

\* the text appended to the log file since the logger was constructed
Appended == SubSeq(logContent, Len(initialLog) + 1, Len(logContent))

\* the non-blank lines appended since the logger was constructed
AppendedLines == NonBlankLines(Appended)

\* the line a log call made at clock t appends, without its newline
Line(t, type, message) == <<ToISOString(t), " ", "[" \o type \o "]", " ", message>>

StartedMessage == "System monitoring started"

StoppedMessage == "System monitoring stopped"

\* the calls to log whose message is m
CallsOf(m) == SelectSeq(calls, LAMBDA c : c.message = m)

\* the messages of the calls to log, in order
Messages == [i \in DOMAIN calls |-> calls[i].message]

\* the number of calls to log made with the level type
CallsAt(type) == Len(SelectSeq(calls, LAMBDA c : c.type = type))

\* the number of ticks that ran to their end: each logs one System line
TicksDone == Len(CallsOf("System: linux x64 (host)"))

\* the number of lines of the text content that carry the level type
Tagged(content, type) ==
    Len(SelectSeq(NonBlankLines(content),
                  LAMBDA l : Len(l) >= 3 /\ l[3] = "[" \o type \o "]"))

\* the calls to log made by the step being taken
NewCalls == SubSeq(calls', Len(calls) + 1, Len(calls'))

\* the non-blank lines of the text the step being taken appends to the log
\* file
NewLines ==
    NonBlankLines(SubSeq(logContent', Len(logContent) + 1, Len(logContent')))

\* the lines the step being taken writes to the console
NewConsole == SubSeq(console', Len(console) + 1, Len(console'))

\* in the step being taken a call to log failed in fs.appendFileSync: the
\* call was made and its line is not in the file
AppendFailed == Len(NewLines) < Len(NewCalls)

\* in the step being taken a call to log failed in the listener: its line
\* is in the file and not on the console
ListenerFailed ==
    /\ Len(NewLines) = Len(NewCalls)
    /\ Len(NewConsole) < Len(NewCalls)

\* the SIGINT handler holds the report generateReport returned
Reported == pc \in {"sigint_write", "sigint_saved", "sigint_exit", "exited"}

----------------------------------------------------------------------------
(* C1: startMonitoring on a Running monitor changes nothing: no log line,  *)
(* no second timer, no field of the monitor. On an Idle monitor it sets    *)
(* the monitor Running, appends exactly one line, INFO 'System monitoring  *)
(* started', and arms exactly one timer, due one interval later, whose     *)
(* handle the monitor keeps; the timer is recurring: when it has fired it  *)
(* is armed again, due one interval later.                                 *)
C1_StartMonitoring ==
    /\ [][CallStartMonitoring =>
             IF monitoring
             THEN UNCHANGED <<logVars, monitorVars>>
             ELSE /\ monitoring'
                  /\ logExists'
                  /\ logContent' =
                         logContent \o Line(now, "INFO", StartedMessage) \o <<"\n">>
                  /\ Len(calls') = Len(calls) + 1
                  /\ Cardinality(timers') = 1
                  /\ \A t \in timers' : t.id = monitorInterval' /\ t.due > now
                  /\ timers \cap timers' = {}]_vars
    /\ [][Tick =>
             /\ Cardinality(timers') = 1
             /\ \A t \in timers' : t.id = monitorInterval /\ t.due > now]_vars

\* startMonitoring was called on a Running monitor, whose one timer was
\* armed by the one start logged so far
C1_Witness ==
    /\ lastCall.op = "startMonitoring"
    /\ lastCall.outcome = "early"
    /\ monitoring
    /\ Cardinality(timers) = 1
    /\ Len(CallsOf(StartedMessage)) = 1

----------------------------------------------------------------------------
(* C2: stopMonitoring is idempotent. A call that follows another call of   *)
(* stopMonitoring changes neither the monitor, the timers nor the log and  *)
(* returns without an error; any call on an Idle monitor appends nothing;  *)
(* a call on a Running monitor appends exactly one line, INFO 'System      *)
(* monitoring stopped', and leaves the monitor Idle with no timer armed.   *)
C2_StopIdempotent ==
    [][CallStopMonitoring =>
          /\ lastCall'.outcome # "threw"
          /\ (lastCall.op = "stopMonitoring" \/ ~monitoring) =>
                 /\ UNCHANGED <<logVars, monitorVars>>
                 /\ lastCall'.outcome = "early"
          /\ monitoring =>
                 /\ logContent' =
                        logContent \o Line(now, "INFO", StoppedMessage) \o <<"\n">>
                 /\ ~monitoring'
                 /\ timers' = {}]_vars

\* stopMonitoring was called on the monitor a stop had just left Idle: the
\* last line of the log is the one stop line
C2_Witness ==
    /\ lastCall.op = "stopMonitoring"
    /\ lastCall.outcome = "early"
    /\ Len(calls) > 0
    /\ calls[Len(calls)].message = StoppedMessage
    /\ Len(CallsOf(StoppedMessage)) = 1

----------------------------------------------------------------------------
(* C3: start then immediate stop. When the first two calls to log are the  *)
(* start line and the stop line (stopMonitoring ran before the timer       *)
(* fired) and startMonitoring is not called again, the log has gained      *)
(* exactly those two lines, whatever time has passed since: no timer is    *)
(* armed and no metric line is ever appended.                              *)
C3_StartThenStop ==
    ( /\ Len(calls) >= 2
      /\ calls[1].message = StartedMessage
      /\ calls[2].message = StoppedMessage
      /\ nextTimer = 2 )
    => /\ Len(calls) = 2
       /\ timers = {}
       /\ ~monitoring
       /\ \E t1, t2 \in 0..now :
              /\ t1 <= t2
              /\ AppendedLines = << Line(t1, "INFO", StartedMessage),
                                    Line(t2, "INFO", StoppedMessage) >>

\* the monitor was started and stopped before its timer fired, and the time
\* at which the timer was due has passed
C3_Witness ==
    /\ Messages = <<StartedMessage, StoppedMessage>>
    /\ nextTimer = 2
    /\ now >= 1
    /\ calls[2].timestamp = ToISOString(0)

----------------------------------------------------------------------------
----------------------------------------------------------------------------
(* C5: alert evaluation. checkAlerts(memoryPercent, cpuPercent) logs, for  *)
(* memory, one ERROR line iff memoryPercent > 85, one WARN line iff        *)
(* 70 < memoryPercent <= 85 and nothing otherwise; for the CPU one ERROR   *)
(* line iff cpuPercent > 80, one WARN line iff 60 < cpuPercent <= 80 and   *)
(* nothing otherwise; the memory line comes before the CPU line, so a call *)
(* logs 0 to 2 lines, and 70, 85, 60 and 80 themselves do not reach the    *)
(* higher level.                                                           *)
C5_AlertEvaluation ==
    lastCall.op = "checkAlerts" =>
        LET m == lastCall.args[1]
            c == lastCall.args[2]
            memLevel == IF m > 8500 THEN <<"ERROR">>
                        ELSE IF m > 7000 /\ m <= 8500 THEN <<"WARN">>
                        ELSE <<>>
            cpuLevel == IF c > 8000 THEN <<"ERROR">>
                        ELSE IF c > 6000 /\ c <= 8000 THEN <<"WARN">>
                        ELSE <<>>
            word(l) == IF l = "ERROR" THEN "CRITICAL: " ELSE "WARNING: "
            expected ==
                [i \in 1..Len(memLevel) |->
                    [type |-> memLevel[i],
                     message |-> word(memLevel[i]) \o "Memory usage at "
                                     \o FormatHundredths(m) \o "%"]]
                \o
                [i \in 1..Len(cpuLevel) |->
                    [type |-> cpuLevel[i],
                     message |-> word(cpuLevel[i]) \o "CPU usage at "
                                     \o FormatHundredths(c) \o "%"]]
        IN  /\ Len(calls) = Len(expected)
            /\ Len(calls) <= 2
            /\ Len(AppendedLines) = Len(calls)
            /\ \A i \in DOMAIN calls :
                   /\ calls[i].type = expected[i].type
                   /\ calls[i].message = expected[i].message
                   /\ AppendedLines[i][3] = "[" \o expected[i].type \o "]"
                   /\ AppendedLines[i][5] = expected[i].message

\* checkAlerts ran on the boundary values 85% and 80%: two WARN lines,
\* memory first
C5_Witness ==
    /\ lastCall.op = "checkAlerts"
    /\ lastCall.args = <<8500, 8000>>
    /\ Len(calls) = 2
    /\ calls[1].type = "WARN"
    /\ calls[2].type = "WARN"

----------------------------------------------------------------------------
(* C6: logger invariant. As claimed: after N calls to log the log file     *)
(* contains exactly N non-empty lines, in call order, each of the form     *)
(* '<timestamp> [<LEVEL>] <message>'. The constructor creates the          *)
(* directory and leaves the file as it is, so the lines of an earlier run  *)
(* are in the file too.                                                    *)
C6_ExactlyNLines ==
    LET lines == NonBlankLines(logContent)
    IN  /\ Len(lines) = Len(calls)
        /\ \A i \in DOMAIN calls :
               lines[i] = << calls[i].timestamp, " ",
                             "[" \o calls[i].type \o "]", " ",
                             calls[i].message >>

(* C6 as amended: after N calls to log the log file holds the content it   *)
(* had when the logger was constructed followed by exactly N non-empty     *)
(* lines, each ended by a newline, in call order, the i-th being           *)
(* '<timestamp> [<LEVEL>] <message>' of the i-th call with LEVEL one of    *)
(* INFO, WARN, ERROR.                                                      *)
C6_NLinesAppended ==
    /\ IsPrefix(initialLog, logContent)
    /\ Len(AppendedLines) = Len(calls)
    /\ Len(Appended) = 6 * Len(calls)
    /\ Len(calls) > 0 => logExists
    /\ \A i \in DOMAIN calls :
           /\ AppendedLines[i] = << calls[i].timestamp, " ",
                                    "[" \o calls[i].type \o "]", " ",
                                    calls[i].message >>
           /\ Appended[6 * i] = "\n"
           /\ calls[i].type \in {"INFO", "WARN", "ERROR"}
           /\ \E t \in 0..now : calls[i].timestamp = ToISOString(t)

\* the logger was constructed on the log of an earlier run and log was
\* called twice, with two levels
C6_Witness ==
    /\ lastCall.op = "log"
    /\ initialLog # <<>>
    /\ ~IsBlank(initialLog)
    /\ Len(calls) = 2
    /\ calls[1].type = "ERROR"
    /\ calls[2].type = "WARN"

----------------------------------------------------------------------------
(* C7: append-only log. Every step of the program (the startup log calls,  *)
(* startMonitoring, a tick with its alerts, the shutdown handler's         *)
(* stopMonitoring, generateReport, the writing of the report, the exit)    *)
(* leaves the previous content of the log file as a prefix of the new      *)
(* content and never removes the file; generateReport leaves the file      *)
(* exactly as it is.                                                       *)
C7_AppendOnly ==
    [][ /\ IsPrefix(logContent, logContent')
        /\ logExists => logExists'
        /\ SigintReport => UNCHANGED <<logExists, logContent>> ]_vars

\* a whole run on the log of an earlier run: startup, a tick with two
\* alerts, shutdown
C7_Witness ==
    /\ pc = "exited"
    /\ ~IsBlank(initialLog)
    /\ IsPrefix(initialLog, logContent)
    /\ Len(calls) = 13

----------------------------------------------------------------------------
(* C8: console mirror. At every moment of the run the console holds, apart *)
(* from the two shutdown messages, one line '[LEVEL] message' for each     *)
(* entry appended to the log since the run began, in the order of the      *)
(* appends: none missing, none twice, none extra.                          *)
C8_ConsoleMirror ==
    LET mirrored ==
            SelectSeq(console,
                LAMBDA l : l \notin {"\nShutting down monitor...",
                                     "Report saved to monitor-report.txt"})
    IN  /\ Len(mirrored) = Len(AppendedLines)
        /\ \A i \in DOMAIN mirrored :
               /\ AppendedLines[i][3] \in {"[INFO]", "[WARN]", "[ERROR]"}
               /\ mirrored[i] =
                      AppendedLines[i][3] \o " " \o AppendedLines[i][5]

\* a whole run: the startup and lifecycle lines, a tick with an ERROR and
\* a WARN alert, all mirrored
C8_Witness ==
    /\ pc = "exited"
    /\ Len(AppendedLines) = 13
    /\ Len(console) = 15
    /\ console[1] = "[INFO] System monitoring started"
    /\ console[2] = "[INFO] System Monitor Backend Initialized"
    /\ console[11] = "[ERROR] CRITICAL: Memory usage at 85.01%"
    /\ console[12] = "[WARN] WARNING: CPU usage at 80%"

----------------------------------------------------------------------------
(* C9: graceful shutdown ordering. On SIGINT the handler stops the loop,   *)
(* then generates the report, then writes the report file, then exits with *)
(* status 0. From the moment stopMonitoring has run the monitor is Idle,   *)
(* no timer is armed and the last call to log, and the last line of the    *)
(* log, is 'System monitoring stopped' (no tick has appended anything      *)
(* since), so the report is computed from a log that ends with that line   *)
(* and counts it.                                                          *)
C9_ShutdownOrder ==
    LET stopped == {"sigint_report", "sigint_write", "sigint_saved",
                    "sigint_exit", "exited"}
        reported == {"sigint_write", "sigint_saved", "sigint_exit", "exited"}
        written == {"sigint_saved", "sigint_exit", "exited"}
        lines == NonBlankLines(logContent)
    IN  /\ pc \in stopped =>
               /\ ~monitoring
               /\ timers = {}
               /\ Len(calls) > 0
               /\ calls[Len(calls)].message = StoppedMessage
               /\ Len(lines) > 0
               /\ lines[Len(lines)][5] = StoppedMessage
        /\ pc \notin reported => report = <<>>
        /\ pc \in reported =>
               /\ Len(report) > 9
               /\ report[8] = "Total Log Entries: "
               /\ report[9] = ToString(Len(lines))
        /\ pc \notin written => reportFile = <<>>
        /\ pc \in written => reportFile = report
        /\ pc # "exited" => exitCode = <<>>
        /\ pc = "exited" => exitCode = <<0>>

\* the process has exited with status 0 after a tick ran; the report file
\* holds the report
C9_Witness ==
    /\ pc = "exited"
    /\ exitCode = <<0>>
    /\ reportFile = report
    /\ Len(report) > 9
    /\ Len(calls) > 10
    /\ calls[Len(calls)].message = StoppedMessage

----------------------------------------------------------------------------
(* C10: report on a missing or empty log. When the log file does not exist *)
(* or holds no non-blank line, generateReport returns the literal 'No log  *)
(* data available', throws nothing and changes neither the log, the        *)
(* monitor nor the timers.                                                 *)
C10_NoLogData ==
    [][CallGenerateReport =>
          /\ UNCHANGED <<logVars, monitorVars>>
          /\ (~logExists
                \/ \A i \in DOMAIN logContent : logContent[i] \in {" ", "\n"})
             => /\ lastCall'.outcome # "threw"
                /\ lastCall'.value = <<"No log data available">> ]_vars

\* generateReport returned the sentinel on a log file that exists and holds
\* blank lines only
C10_Witness ==
    /\ lastCall.op = "generateReport"
    /\ lastCall.value = <<"No log data available">>
    /\ logExists
    /\ Len(logContent) > 0

----------------------------------------------------------------------------
(* C11: end-to-end report counts. As claimed: after start, k ticks, stop   *)
(* and generateReport, the report's Total Log Entries is the 3 startup     *)
(* lines + the 2 lifecycle lines + 6 lines for each of the k ticks + the   *)
(* alert lines logged, and its Errors and Warnings are the numbers of      *)
(* ERROR-tagged and WARN-tagged lines present in the log.                  *)
C11_ReportCounts ==
    Reported =>
        /\ report[9] = ToString(3 + 2 + 6 * TicksDone
                                  + CallsAt("ERROR") + CallsAt("WARN"))
        /\ report[12] = ToString(Tagged(logContent, "ERROR"))
        /\ report[15] = ToString(Tagged(logContent, "WARN"))

\* What holds: the total also counts the non-blank lines the log file held
\* when the logger was constructed; the Errors and Warnings are those of the
\* whole file, the ones logged in this run and the ones found in the file.
C11_ReportCountsWholeFile ==
    Reported =>
        /\ report[8] = "Total Log Entries: "
        /\ report[9] = ToString(Len(NonBlankLines(initialLog))
                                  + 3 + 2 + 6 * TicksDone
                                  + CallsAt("ERROR") + CallsAt("WARN"))
        /\ report[11] = "Errors: "
        /\ report[12] = ToString(Tagged(logContent, "ERROR"))
        /\ report[12] = ToString(Tagged(initialLog, "ERROR")
                                   + CallsAt("ERROR"))
        /\ report[14] = "Warnings: "
        /\ report[15] = ToString(Tagged(logContent, "WARN"))
        /\ report[15] = ToString(Tagged(initialLog, "WARN") + CallsAt("WARN"))

\* the report of a run of two ticks which logged three alerts, two of them
\* errors, on a log file that held the two lines of an earlier run
C11_Witness ==
    /\ Reported
    /\ initialLog = PreviousLog
    /\ TicksDone = 2
    /\ CallsAt("ERROR") = 2
    /\ CallsAt("WARN") = 1
    /\ report[9] = "22"
    /\ report[12] = "2"
    /\ report[15] = "2"

----------------------------------------------------------------------------
(* C12: formatBytes unit selection. As claimed: formatBytes(0) is          *)
(* '0 Bytes'; for every byte count b >= 1 the unit printed is one of       *)
(* Bytes, KB, MB, GB, TB, namely the largest of these units 1024^i with    *)
(* b / 1024^i >= 1; and the unit index does not decrease when b grows.     *)

\* 1024^i <= m * 1024^e, for 1 <= m < 1024^2
AtLeastPow(m, e, i) == i <= e \/ (i = e + 1 /\ m >= 1024)

\* m1 * 1024^e1 <= m2 * 1024^e2, for 1 <= m1, m2 < 1024^2
LessEqScaled(m1, e1, m2, e2) ==
    IF e1 = e2 THEN m1 <= m2
    ELSE IF e1 + 1 = e2 THEN m1 <= m2 * 1024
    ELSE IF e1 = e2 + 1 THEN m1 * 1024 <= m2
    ELSE e1 < e2

\* the place of the unit u among the five units, 0 if it is none of them
IndexOfUnit(u) ==
    IF \E j \in DOMAIN Sizes : Sizes[j] = u
    THEN CHOOSE j \in DOMAIN Sizes : Sizes[j] = u
    ELSE 0

C12_UnitSelection ==
    [][CallFormatBytes =>
          LET m == lastCall'.args[1]
              e == lastCall'.args[2]
              text == lastCall'.value
              largest == CHOOSE i \in 0..4 :
                             /\ AtLeastPow(m, e, i)
                             /\ \A j \in 0..4 : AtLeastPow(m, e, j) => j <= i
          IN  /\ m = 0 => text = <<"0 Bytes">>
              /\ m >= 1 =>
                     /\ Len(text) = 3
                     /\ text[3] \in {"Bytes", "KB", "MB", "GB", "TB"}
                     /\ text[3] = Sizes[largest + 1]
              /\ <<m, e>> = <<1024, 0>> => text = <<"1", " ", "KB">>
              /\ <<m, e>> = <<1536, 0>> => text = <<"1.5", " ", "KB">>
              /\ (/\ lastCall.op = "formatBytes"
                  /\ lastCall.args[1] >= 1
                  /\ m >= 1
                  /\ LessEqScaled(lastCall.args[1], lastCall.args[2], m, e))
                 => IndexOfUnit(lastCall.value[3]) <= IndexOfUnit(text[3]) ]_vars

----------------------------------------------------------------------------
(* C13: tick line order. Every tick appends exactly six INFO lines in the  *)
(* order Memory, CPU, CPU Usage, Process, System, Network Interfaces, and   *)
(* after those six the alert lines, if any, of the percentages that the    *)
(* same tick printed in its Memory and CPU Usage lines.                    *)
C13_TickLineOrder ==
    [][Tick =>
          \E m \in {7000, 8500, 8501}, c \in {6000, 8000, 8001} :
              LET usedFormatted ==
                      IF m = 7000 THEN "6.84 KB" ELSE "8.3 KB"
                  alerts ==
                      (IF m > 8500
                       THEN <<Call("ERROR", "CRITICAL: Memory usage at "
                                      \o FormatHundredths(m) \o "%")>>
                       ELSE IF m > 7000
                       THEN <<Call("WARN", "WARNING: Memory usage at "
                                      \o FormatHundredths(m) \o "%")>>
                       ELSE <<>>)
                      \o
                      (IF c > 8000
                       THEN <<Call("ERROR", "CRITICAL: CPU usage at "
                                      \o FormatHundredths(c) \o "%")>>
                       ELSE IF c > 6000
                       THEN <<Call("WARN", "WARNING: CPU usage at "
                                      \o FormatHundredths(c) \o "%")>>
                       ELSE <<>>)
                  n == 6 + Len(alerts)
              IN  /\ Len(NewCalls) = n
                  /\ \A i \in 1..6 : NewCalls[i].type = "INFO"
                  /\ NewCalls[1].message =
                         "Memory: " \o FormatHundredths(m) \o "% ("
                             \o usedFormatted \o "/9.77 KB)"
                  /\ NewCalls[2].message \in
                         {"CPU: 1 cores, cpu0", "CPU: 2 cores, cpu0"}
                  /\ NewCalls[3].message =
                         "CPU Usage: " \o FormatHundredths(c) \o "%"
                  /\ NewCalls[4].message =
                         "Process: 2 KB, Uptime: " \o ToString(3 * now) \o "s"
                  /\ NewCalls[5].message = "System: linux x64 (host)"
                  /\ NewCalls[6].message = "Network Interfaces: 2"
                  /\ \A i \in 1..Len(alerts) :
                         /\ NewCalls[6 + i].type = alerts[i].type
                         /\ NewCalls[6 + i].message = alerts[i].message
                  /\ Len(NewLines) = n
                  /\ \A i \in 1..n :
                         NewLines[i] = Line(now, NewCalls[i].type,
                                            NewCalls[i].message) ]_vars

\* a tick has appended its six lines and then both alerts: the memory error
\* of the 85.01% it printed and the CPU warning of the 80% it printed
C13_Witness ==
    /\ lastCall.op = "collectSystemMetrics"
    /\ Len(calls) >= 8
    /\ LET n == Len(calls)
           lines == NonBlankLines(logContent)
       IN  /\ Len(lines) >= 8
           /\ calls[n - 7].message = "Memory: 85.01% (8.3 KB/9.77 KB)"
           /\ calls[n - 5].message = "CPU Usage: 80%"
           /\ lines[Len(lines) - 2][5] = "Network Interfaces: 2"
           /\ lines[Len(lines) - 1][3] = "[ERROR]"
           /\ lines[Len(lines) - 1][5] = "CRITICAL: Memory usage at 85.01%"
           /\ lines[Len(lines)][3] = "[WARN]"
           /\ lines[Len(lines)][5] = "WARNING: CPU usage at 80%"

----------------------------------------------------------------------------
(* C14: listener failure isolation. As claimed: when the 'logged' listener *)
(* fails during a call to log made by startMonitoring, stopMonitoring or a *)
(* tick, the line of that call is in the log file and the failure is not   *)
(* thrown into the caller: startMonitoring goes on to arm its timer,       *)
(* stopMonitoring returns, the tick logs all its lines.                    *)
C14_ListenerIsolation ==
    [][((FaultStartMonitoring \/ FaultStopMonitoring \/ FaultTick)
            /\ ListenerFailed)
          => /\ NewLines[Len(NewLines)][5] = NewCalls[Len(NewCalls)].message
             /\ lastCall'.outcome # "threw"
             /\ FaultStartMonitoring =>
                    monitoring' /\ Cardinality(timers') = 1
             /\ FaultTick => Len(NewCalls) >= 6 ]_vars

----------------------------------------------------------------------------
(* C15: append failure. When fs.appendFileSync fails inside a call to log  *)
(* made by startMonitoring, stopMonitoring or a tick, the caller throws,   *)
(* the listener is not run for that entry, and the log file keeps what it  *)
(* held; of a tick, the lines it appended before the failure are in the    *)
(* file, in order, and the failing line and those after it are not.        *)
C15_AppendFailure ==
    [][((FaultStartMonitoring \/ FaultStopMonitoring \/ FaultTick)
            /\ AppendFailed)
          => /\ lastCall'.outcome = "threw"
             /\ IsPrefix(logContent, logContent')
             /\ Len(NewLines) = Len(NewCalls) - 1
             /\ \A i \in 1..Len(NewLines) :
                    NewLines[i] = Line(now, NewCalls[i].type,
                                       NewCalls[i].message)
             /\ Len(NewConsole) = Len(NewLines)
             /\ \A i \in 1..Len(NewConsole) :
                    NewConsole[i] = ConsoleLine(NewCalls[i])
             /\ FaultTick => pc' = "crashed" ]_vars

\* the third append of a tick failed: the tick's first two lines are in the
\* file and on the console, the CPU Usage line is in neither, the callback
\* threw
C15_Witness ==
    /\ lastCall.op = "collectSystemMetrics"
    /\ lastCall.outcome = "threw"
    /\ pc = "crashed"
    /\ Len(calls) >= 3
    /\ calls[Len(calls)].message = "CPU Usage: 80%"
    /\ Len(AppendedLines) = Len(calls) - 1
    /\ AppendedLines[Len(AppendedLines)][5] = "CPU: 1 cores, cpu0"
    /\ AppendedLines[Len(AppendedLines) - 1][5]
           = "Memory: 85% (8.3 KB/9.77 KB)"
    /\ console[Len(console)] = "[INFO] CPU: 1 cores, cpu0"

----------------------------------------------------------------------------
(* C16: no hysteresis. A tick whose Memory or CPU Usage line shows a       *)
(* percentage above a threshold appends the alert line of that percentage, *)
(* whether or not earlier ticks appended the same alert: after every tick  *)
(* the log holds as many alert lines of each kind as ticks in which the    *)
(* condition held, k alert lines for k such ticks.                         *)

\* the metric lines above a threshold, each with the alert it calls for
AlertedMetrics ==
    { <<"Memory: 85% (8.3 KB/9.77 KB)", "WARN",
        "WARNING: Memory usage at 85%">>,
      <<"Memory: 85.01% (8.3 KB/9.77 KB)", "ERROR",
        "CRITICAL: Memory usage at 85.01%">>,
      <<"CPU Usage: 80%", "WARN", "WARNING: CPU usage at 80%">>,
      <<"CPU Usage: 80.01%", "ERROR", "CRITICAL: CPU usage at 80.01%">> }

\* the number of lines of the text content with the level and message
LinesIn(content, type, message) ==
    Len(SelectSeq(NonBlankLines(content),
                  LAMBDA l : l[3] = "[" \o type \o "]" /\ l[5] = message))

\* the number of lines appended since construction with the level and message
LinesOf(type, message) == LinesIn(Appended, type, message)

C16_NoHysteresis ==
    [][Tick =>
          \A a \in AlertedMetrics :
              /\ (\E i \in DOMAIN NewCalls : NewCalls[i].message = a[1])
                     => (\E j \in DOMAIN NewLines :
                            /\ NewLines[j][3] = "[" \o a[2] \o "]"
                            /\ NewLines[j][5] = a[3])
              /\ LET after == SubSeq(logContent', Len(initialLog) + 1,
                                     Len(logContent'))
                 IN  LinesIn(after, a[2], a[3]) = LinesIn(after, "INFO", a[1])
          ]_vars

\* two consecutive ticks found the CPU at 80%: the log holds two CPU
\* warnings, the second appended by the second tick
C16_Witness ==
    /\ lastCall.op = "collectSystemMetrics"
    /\ TicksDone = 2
    /\ LinesOf("INFO", "CPU Usage: 80%") = 2
    /\ LinesOf("WARN", "WARNING: CPU usage at 80%") = 2
    /\ AppendedLines[Len(AppendedLines)][5] = "WARNING: CPU usage at 80%"

----------------------------------------------------------------------------
(* C17: ticks are serialized. In every state of the run the lines of each  *)
(* tick form one contiguous block of the log: its six metric lines in      *)
(* order, then its alert lines; no line of another tick, of the startup    *)
(* log calls or of the handler's stop lies inside a block, and no block is *)
(* left unfinished when another handler runs.                              *)

\* the place of a line in the block of a tick: 1 to 6 for the six metric
\* lines, 7 for an alert, 0 for a line that no tick writes
PlaceInTick(line) ==
    IF line[3] # "[INFO]" THEN 7
    ELSE IF line[5] \in {"Memory: 70% (6.84 KB/9.77 KB)",
                         "Memory: 85% (8.3 KB/9.77 KB)",
                         "Memory: 85.01% (8.3 KB/9.77 KB)"} THEN 1
    ELSE IF line[5] \in {"CPU: 1 cores, cpu0", "CPU: 2 cores, cpu0"} THEN 2
    ELSE IF line[5] \in {"CPU Usage: 60%", "CPU Usage: 80%",
                         "CPU Usage: 80.01%"} THEN 3
    ELSE IF line[5] \in {"Process: 2 KB, Uptime: " \o ToString(3 * t) \o "s" :
                             t \in 0..now} THEN 4
    ELSE IF line[5] = "System: linux x64 (host)" THEN 5
    ELSE IF line[5] = "Network Interfaces: 2" THEN 6
    ELSE 0

C17_TicksSerialized ==
    LET lines == AppendedLines
        place == [i \in DOMAIN lines |-> PlaceInTick(lines[i])]
    IN  /\ \A i \in DOMAIN lines :
               /\ place[i] \in 2..6 => i > 1 /\ place[i - 1] = place[i] - 1
               /\ place[i] \in 1..5 =>
                      i < Len(lines) /\ place[i + 1] = place[i] + 1
               /\ place[i] = 7 => i > 1 /\ place[i - 1] \in {6, 7}
               /\ lines[i][1] \in {ToISOString(t) : t \in 0..now}
               /\ place[i] \in 2..7 => lines[i][1] = lines[i - 1][1]
        /\ Len(SelectSeq(lines, LAMBDA l : PlaceInTick(l) = 1)) = TicksDone

\* two ticks ran and the handler stopped the monitor: the log holds the
\* start line, the three startup lines, two whole blocks and the stop line
C17_Witness ==
    /\ pc = "sigint_report"
    /\ TicksDone = 2
    /\ Len(AppendedLines) = 19
    /\ AppendedLines[1][5] = StartedMessage
    /\ PlaceInTick(AppendedLines[4]) = 0
    /\ PlaceInTick(AppendedLines[5]) = 1
    /\ PlaceInTick(AppendedLines[11]) = 7
    /\ PlaceInTick(AppendedLines[12]) = 1
    /\ PlaceInTick(AppendedLines[18]) = 7
    /\ AppendedLines[19][5] = StoppedMessage

----------------------------------------------------------------------------
(* C18: report time bounds. As claimed: for every log file that holds at   *)
(* least one non-blank line, generateReport returns a report block and     *)
(* throws nothing; the report's Start Time is the first token of the first *)
(* non-blank line and its End Time the first token of the second-to-last   *)
(* non-blank line.                                                         *)
C18_ReportTimeBounds ==
    [][(CallGenerateReport /\ logExists
            /\ Len(NonBlankLines(logContent)) >= 1)
          => LET lines == NonBlankLines(logContent)
                 text == lastCall'.value
             IN  /\ lastCall'.outcome = "completed"
                 /\ Len(text) = 24
                 /\ text[17] = "Start Time: "
                 /\ text[18] = FirstToken(lines[1])
                 /\ text[20] = "End Time: "
                 /\ text[21] = FirstToken(lines[Len(lines) - 1]) ]_vars

----------------------------------------------------------------------------
(* C19: the monitoring flag and the timer. As claimed: in every reachable  *)
(* state, also after an append or a listener failed inside startMonitoring *)
(* or stopMonitoring, the monitoring flag is true if and only if exactly   *)
(* one timer is armed, never more than one timer is armed, and a call of   *)
(* startMonitoring that finds no timer armed and does not fail arms one.   *)
C19_FlagMatchesTimer ==
    [][/\ monitoring <=> Cardinality(timers) = 1
       /\ monitoring' <=> Cardinality(timers') = 1
       /\ Cardinality(timers) <= 1
       /\ Cardinality(timers') <= 1
       /\ (FaultStartMonitoring /\ timers = {}
               /\ lastCall'.outcome # "threw")
          => Cardinality(timers') = 1 ]_vars

----------------------------------------------------------------------------
(* C20: the shutdown report is always well defined. Whenever the SIGINT    *)
(* handler runs, after any number of ticks, also none, the log holds at    *)
(* least two non-blank lines once the handler has stopped the monitor, the *)
(* last of them the stop line; generateReport throws nothing and returns a *)
(* full report, not 'No log data available'; and the report's End Time is  *)
(* the timestamp of the last line appended before the stop line.           *)
C20_ShutdownReport ==
    LET lines == NonBlankLines(logContent)
        n == Len(lines)
    IN  /\ pc # "crashed"
        /\ exitCode \in {<<>>, <<0>>}
        /\ pc = "sigint_stop" => monitoring /\ Len(calls) >= 4
        /\ (pc = "sigint_report" \/ Reported) =>
               /\ n >= 2
               /\ Len(calls) >= 2
               /\ lines[n] = Line(now, "INFO", StoppedMessage)
               /\ lines[n - 1][1] = calls[Len(calls) - 1].timestamp
               /\ lines[n - 1][5] = calls[Len(calls) - 1].message
        /\ Reported =>
               /\ lastCall.op = "generateReport"
               /\ lastCall.outcome = "completed"
               /\ report # NoData
               /\ Len(report) = 24
               /\ report[4] = "  SYSTEM MONITOR REPORT"
               /\ report[20] = "End Time: "
               /\ report[21] = calls[Len(calls) - 1].timestamp

\* SIGINT arrived one interval after the launch, before any tick: the log
\* holds the start line, the three startup lines and the stop line, and
\* the End Time is the time of the last startup line
C20_Witness ==
    /\ Reported
    /\ TicksDone = 0
    /\ now = 1
    /\ Len(calls) = 5
    /\ calls[4].message = "Process ID: 4242"
    /\ calls[5].timestamp = ToISOString(1)
    /\ report[21] = ToISOString(0)

====
